---- MODULE Spec2Model ----
(***************************************************************************)
(* Model of main.py: the three-backend dialogue tests, their response      *)
(* checks and the model_dialogues table they are saved to.                 *)
(*                                                                         *)
(* A text is a sequence of Unicode code points; Python's None is the       *)
(* one-element sequence <<-1>>, which is no text.                          *)
(***************************************************************************)
EXTENDS Integers, Sequences, FiniteSets, TLC

VARIABLES
    db,                \* the committed rows of model_dialogues, in rowid order
    now,               \* the wall clock, in ticks
    conn,              \* per caller: its save_dialogue_to_db call and connection
    result,            \* what the last query returned
    pc,                \* where the pytest session stands
    test_name,         \* test_name of the running test
    dialogue_entries,  \* dialogue_entries of the running test
    turn,              \* adapter calls the running test has made
    prompt,            \* what the last adapter call was given
    responses,         \* responses of test_task_solving_dialogue
    failure,           \* the exception that ended the test, if one did
    deviations,        \* adapter calls that did not return the nominal answer
    startLen,          \* Len(db) when the running test began
    call,              \* single turn: the backend called and what its client did
    returned,          \* single turn: what get_model_response returned
    verdict            \* single turn: what the checks of the tests said of it

vars == <<db, now, conn, result, pc, test_name, dialogue_entries, turn, prompt,
          responses, failure, deviations, startLen, call, returned, verdict>>

(* ------------------------------ bounds --------------------------------- *)
\* largest value of the wall clock (ticks)
MaxTime == 1
\* clock ticks in one second: the last tick of the clock begins a new second
TicksPerSecond == MaxTime
\* adapter calls of one session that may return something else than the
\* backend's nominal answer
MaxDeviations == 2
\* most rows the direct callers of save_dialogue_to_db put into the table
MaxRows == 3
\* longest text drawn for the checks of single texts
MaxLen == 2

(* ------------------------------ texts ---------------------------------- *)
None == <<-1>>

\* "Error getting response from "
ErrorPrefix ==
    <<69,114,114,111,114,32,103,101,116,116,105,110,103,32,114,101,115,112,
      111,110,115,101,32,102,114,111,109,32>>

\* the backend identifiers, as text
IdText(client_type) ==
    CASE client_type = "openai"   -> <<111,112,101,110,97,105>>
      [] client_type = "ollama"   -> <<111,108,108,97,109,97>>
      [] client_type = "gigachat" -> <<103,105,103,97,99,104,97,116>>
      [] OTHER                    -> <<63>>

\* str.isalpha of one character: Latin and Cyrillic letters
IsAlpha(c) ==
    \/ c \in 65..90
    \/ c \in 97..122
    \/ c \in 1024..1153
    \/ c \in 1162..1327

\* a character str.split() separates words at
IsSpace(c) == c \in {9, 10, 11, 12, 13, 28, 29, 30, 31, 32, 133, 160}

\* isinstance(response, str)
IsStr(v) == v # None

\* any(char.isalpha() for char in response)
AnyAlpha(s) == \E k \in 1..Len(s) : IsAlpha(s[k])

\* bool(re.search("[а-я А-Я]", response)): a space within the brackets
HasRussianOrSpace(s) ==
    \E k \in 1..Len(s) :
        s[k] \in 1072..1103 \/ s[k] = 32 \/ s[k] \in 1040..1071

\* bool(re.search("[а-яА-Я]", response)): U+0430..U+044F or U+0410..U+042F
HasRussian(s) ==
    \E k \in 1..Len(s) : s[k] \in 1072..1103 \/ s[k] \in 1040..1071

\* len(final_response.split()): the maximal runs of non-space characters
WordCount(s) ==
    Cardinality({k \in 1..Len(s) :
        /\ ~IsSpace(s[k])
        /\ (k = 1 \/ IsSpace(s[k-1]))})

min_words == 20

(* --------------------------- response checks --------------------------- *)
\* lines 199-205 without the assert of line 200
CheckResponseNoEmptyCheck(response) ==
    IF ~IsStr(response) THEN "string"
    ELSE IF ~AnyAlpha(response) THEN "letters"
    ELSE IF ~HasRussian(response) THEN "russian"
    ELSE "ok"

\* lines 199-205: the first assert that fails, "ok" if none does
CheckResponse(response) ==
    IF ~IsStr(response) THEN "string"
    ELSE IF ~(Len(response) > 0) THEN "empty"
    ELSE IF ~AnyAlpha(response) THEN "letters"
    ELSE IF ~HasRussian(response) THEN "russian"
    ELSE "ok"

\* lines 276-279
CheckAspect(response) ==
    IF ~IsStr(response) THEN "string"
    ELSE IF ~(Len(response) > 0) THEN "empty"
    ELSE IF ~HasRussian(response) THEN "russian"
    ELSE "ok"

\* lines 309-317 with word_count > min_words at line 317
CheckFinalMoreThanMin(final_response) ==
    IF ~IsStr(final_response) THEN "string"
    ELSE IF ~(Len(final_response) > 0) THEN "empty"
    ELSE IF ~HasRussian(final_response) THEN "russian"
    ELSE IF ~(WordCount(final_response) > min_words) THEN "short"
    ELSE "ok"

\* lines 309-317
CheckFinal(final_response) ==
    IF ~IsStr(final_response) THEN "string"
    ELSE IF ~(Len(final_response) > 0) THEN "empty"
    ELSE IF ~HasRussian(final_response) THEN "russian"
    ELSE IF ~(WordCount(final_response) >= min_words) THEN "short"
    ELSE "ok"

(* ------------------------------ the store ------------------------------ *)
\* the callers of save_dialogue_to_db; the pytest session is the first
Callers == {"c1", "c2"}

\* NULL in the aspect column
NULL == "NULL"

\* dict.get(key, default)
Get(entry, key, default) == IF key \in DOMAIN entry THEN entry[key] ELSE default

\* strftime('%Y%m%d_%H%M%S') and CURRENT_TIMESTAMP: the clock cut to seconds
Second(t) == t \div TicksPerSecond

\* lines 129-136 with the columns sqlite fills in (id, timestamp)
Row(id, name, t, entry, seq_num) ==
    [id              |-> id,
     test_name       |-> name,
     timestamp       |-> Second(t),
     model_name      |-> Get(entry, "model", "system"),
     message_type    |-> Get(entry, "type", "message"),
     message_content |-> entry["content"],
     aspect          |-> Get(entry, "aspect", NULL),
     sequence_number |-> seq_num]

NoResult == [query |-> "none", rows |-> <<>>]

IdleConn ==
    [status |-> "idle", name |-> <<>>, entries |-> <<>>, pos |-> 0,
     pending |-> <<>>, error |-> "none"]

\* the connection of caller c holds the write lock of the database file
HoldsLock(c) == conn[c].status = "open" /\ conn[c].pending # <<>>

\* line 121: save_dialogue_to_db(test_name, dialogue_entries) opens its connection
OpenConn(c, name, entries) ==
    /\ conn[c].status = "idle"
    /\ conn' = [conn EXCEPT ![c] =
                   [status |-> "open", name |-> name, entries |-> entries,
                    pos |-> 0, pending |-> <<>>, error |-> "none"]]

\* enumerate(dialogue_entries, 1)
SeqNumFromOne(pos) == pos + 1

\* enumerate(dialogue_entries): the number given to the entry at 0-based pos
SeqNum(pos) == pos

\* the exception leaves the with block of a connection that commits every
\* INSERT by itself
RaiseAfterAutocommit(c, error) ==
    /\ conn' = [conn EXCEPT ![c].status = "raised", ![c].error = error,
                             ![c].pending = <<>>]
    /\ db' = db \o conn[c].pending

\* the exception leaves the with block: conn.close() drops what was not
\* committed, and the caller gets the exception
Raise(c, error) ==
    /\ conn' = [conn EXCEPT ![c].status = "raised", ![c].error = error,
                             ![c].pending = <<>>]
    /\ db' = db

\* lines 122-137, one pass of the loop whose INSERT succeeds
Insert(c) ==
    /\ conn[c].status = "open"
    /\ conn[c].pos < Len(conn[c].entries)
    /\ \A d \in Callers \ {c} : ~HoldsLock(d)
    /\ LET entry == conn[c].entries[conn[c].pos + 1]
       IN /\ "content" \in DOMAIN entry
          /\ entry["content"] # None
          /\ conn' = [conn EXCEPT
                 ![c].pending = Append(@,
                     Row(Len(db) + Len(conn[c].pending) + 1, conn[c].name, now,
                         entry, SeqNum(conn[c].pos))),
                 ![c].pos = @ + 1]
    /\ UNCHANGED <<db, now>>

\* lines 122-137, one pass of the loop that raises: the entry has no content
\* (KeyError), its content is None (NOT NULL), or sqlite cannot write
InsertRaises(c) ==
    /\ conn[c].status = "open"
    /\ conn[c].pos < Len(conn[c].entries)
    /\ LET entry == conn[c].entries[conn[c].pos + 1]
       IN \/ /\ "content" \notin DOMAIN entry
             /\ Raise(c, "KeyError")
          \/ /\ "content" \in DOMAIN entry
             /\ entry["content"] = None
             /\ Raise(c, "IntegrityError")
          \/ /\ "content" \in DOMAIN entry
             /\ entry["content"] # None
             /\ Raise(c, "OperationalError")
    /\ UNCHANGED now

\* line 138: conn.commit() makes the rows of the call visible, then the
\* connection is closed and the call returns
Commit(c) ==
    /\ conn[c].status = "open"
    /\ conn[c].pos = Len(conn[c].entries)
    /\ db' = db \o conn[c].pending
    /\ conn' = [conn EXCEPT ![c].status = "returned", ![c].pending = <<>>]
    /\ UNCHANGED now

\* line 138: conn.commit() fails
CommitRaises(c) ==
    /\ conn[c].status = "open"
    /\ conn[c].pos = Len(conn[c].entries)
    /\ Raise(c, "OperationalError")
    /\ UNCHANGED now

\* the rows of a set in ORDER BY sequence_number order. SQL leaves the order
\* of rows with equal keys to the engine: these are the listings an engine
\* may return, so that what holds of each of them holds with every engine
RECURSIVE BySequenceNumber(_)
BySequenceNumber(S) ==
    IF S = {} THEN {<<>>}
    ELSE UNION {{<<r>> \o t : t \in BySequenceNumber(S \ {r})} :
                r \in {x \in S : \A y \in S :
                          x.sequence_number <= y.sequence_number}}

\* lines 143-150: SELECT * ... WHERE test_name = ? ORDER BY sequence_number
Dialogue(store, name) ==
    BySequenceNumber({store[k] : k \in {j \in 1..Len(store) :
                                          store[j].test_name = name}})

\* the (test_name, timestamp) pairs in ORDER BY timestamp DESC order
RECURSIVE ByTimestampDesc(_)
ByTimestampDesc(S) ==
    IF S = {} THEN {<<>>}
    ELSE UNION {{<<p>> \o t : t \in ByTimestampDesc(S \ {p})} :
                p \in {x \in S : \A y \in S : x[2] >= y[2]}}

\* LIMIT 5 of line 341
Limit == 5

FirstN(s, n) == SubSeq(s, 1, IF Len(s) < n THEN Len(s) ELSE n)

\* lines 336-343: SELECT DISTINCT test_name, timestamp ... ORDER BY timestamp
\* DESC LIMIT 5
LatestTests(store) ==
    {FirstN(s, Limit) :
        s \in ByTimestampDesc({<<store[k].test_name, store[k].timestamp>> :
                                  k \in 1..Len(store)})}

(* --------------------- direct callers of the store --------------------- *)
\* an empty dict
EmptyDict == [k \in {} |-> None]

NoPrompt == [kind |-> "none"]
NoFailure == [rule |-> "none", model |-> "none", prefix |-> "none"]

\* the session variables while no session runs
NoSession ==
    /\ pc = "off"
    /\ test_name = <<>>
    /\ dialogue_entries = <<>>
    /\ turn = 0
    /\ prompt = NoPrompt
    /\ responses = EmptyDict
    /\ failure = NoFailure
    /\ deviations = 0
    /\ startLen = 0

NoCall == [client_type |-> "none", outcome |-> [kind |-> "none", value |-> <<>>]]
NoVerdict == [response |-> "none", aspect |-> "none", final |-> "none"]

NoTurn ==
    /\ call = NoCall
    /\ returned = None
    /\ verdict = NoVerdict

sessionVars == <<pc, test_name, dialogue_entries, turn, prompt, responses, failure,
                 deviations, startLen>>
turnVars == <<call, returned, verdict>>

\* the run names the direct callers use
RunNames == {<<"run", 1>>, <<"run", 2>>}

\* the entries the direct callers hand over: with every key, with the content
\* only, without content, with None as content
EntryPool ==
    {[model |-> "openai", type |-> "response", content |-> <<1103>>],
     [content |-> <<97>>],
     [model |-> "ollama", type |-> "response"],
     [model |-> "ollama", content |-> None]}

EntryLists(longest) ==
    UNION {[1..n -> EntryPool] : n \in 0..longest}

InitStore ==
    /\ db = <<>>
    /\ now = 0
    /\ conn = [c \in Callers |-> IdleConn]
    /\ result = NoResult
    /\ NoSession
    /\ NoTurn

\* lines 119-121: a caller calls save_dialogue_to_db(test_name,
\* dialogue_entries); the calls follow one another, and the listing read
\* before is dropped
save_dialogue_to_db ==
    /\ \E name \in RunNames, entries \in EntryLists(MaxRows - Len(db)) :
          OpenConn("c1", name, entries)
    /\ result' = NoResult
    /\ UNCHANGED <<db, now, sessionVars, turnVars>>

StoreInsert ==
    /\ \E c \in Callers : Insert(c)
    /\ UNCHANGED <<result, sessionVars, turnVars>>

StoreInsertRaises ==
    /\ \E c \in Callers : InsertRaises(c)
    /\ UNCHANGED <<result, sessionVars, turnVars>>

StoreCommit ==
    /\ \E c \in Callers : Commit(c)
    /\ UNCHANGED <<result, sessionVars, turnVars>>

StoreCommitRaises ==
    /\ \E c \in Callers : CommitRaises(c)
    /\ UNCHANGED <<result, sessionVars, turnVars>>

\* the caller has the outcome of its call and may call again
Return ==
    /\ \E c \in Callers :
          /\ conn[c].status \in {"returned", "raised"}
          /\ conn' = [conn EXCEPT ![c] = IdleConn]
    /\ UNCHANGED <<db, now, result, sessionVars, turnVars>>

\* time passes
Tick ==
    /\ now < MaxTime
    /\ now' = now + 1
    /\ UNCHANGED <<db, conn, result, sessionVars, turnVars>>

\* get_dialogue_from_db(test_name); it reads the committed rows, so the calls
\* made while no save is under way see every store content there is
get_dialogue_from_db ==
    /\ \A c \in Callers : conn[c].status = "idle"
    /\ \E name \in RunNames :
          \E rows \in Dialogue(db, name) :
             result' = [query |-> "dialogue", rows |-> rows]
    /\ UNCHANGED <<db, now, conn, sessionVars, turnVars>>

\* view_latest_test_results(): the query of the latest tests
view_latest_test_results ==
    /\ \A c \in Callers : conn[c].status = "idle"
    /\ \E rows \in LatestTests(db) :
          result' = [query |-> "latest", rows |-> rows]
    /\ UNCHANGED <<db, now, conn, sessionVars, turnVars>>

NextStore ==
    \/ save_dialogue_to_db
    \/ StoreInsert
    \/ StoreInsertRaises
    \/ StoreCommit
    \/ StoreCommitRaises
    \/ Return
    \/ Tick
    \/ get_dialogue_from_db
    \/ view_latest_test_results

SpecStore == InitStore /\ [][NextStore]_vars

(* ------------------------------ the adapter ---------------------------- *)
\* lines 179 and 241
models == <<"openai", "ollama", "gigachat">>

\* the rounds of line 181
Rounds == 3

\* line 117: f"Error getting response from {client_type}: {str(e)}"
ErrorText(client_type, detail) ==
    ErrorPrefix \o IdText(client_type) \o <<58, 32>> \o detail

\* str(KeyError("response")), quotes included
KeyErrorDetail == <<39,114,101,115,112,111,110,115,101,39>>

\* lines 91-117 with an error text that leaves the backend out
get_model_response_anon(client_type, outcome) ==
    IF client_type \notin {"openai", "ollama", "gigachat"} THEN None
    ELSE IF outcome.kind = "raises" THEN ErrorPrefix \o outcome.value
    ELSE IF outcome.kind = "nokey" THEN ErrorPrefix \o KeyErrorDetail
    ELSE outcome.value

\* lines 91-117. The outcome is what the backend's client did: it delivered a
\* content (a text or None), it raised an exception with a detail text, or
\* (ollama) its JSON had no "response" key
get_model_response(client_type, outcome) ==
    IF client_type \notin {"openai", "ollama", "gigachat"} THEN None
    ELSE IF outcome.kind = "raises" THEN ErrorText(client_type, outcome.value)
    ELSE IF outcome.kind = "nokey" THEN ErrorText(client_type, KeyErrorDetail)
    ELSE outcome.value

\* what the client of a backend can do, with the texts it may deliver or
\* put into the exception
OutcomesOver(client_type, texts) ==
    {[kind |-> "content", value |-> v] : v \in texts \cup {None}}
    \cup {[kind |-> "raises", value |-> v] : v \in texts}
    \cup (IF client_type = "ollama"
          THEN {[kind |-> "nokey", value |-> <<>>]} ELSE {})

(* ------------------------------- the tests ----------------------------- *)
\* the topic of lines 166-169 and the task of lines 225-231, cut after the
\* first word
topic == <<76,101,116,39,115>>
task == <<84,97,115,107,58>>

\* lines 242-246
aspects(model) ==
    CASE model = "openai"   -> "technical aspect of the platform"
      [] model = "ollama"   -> "pedagogical aspect of the platform"
      [] model = "gigachat" -> "user experience aspect"

\* the keys of aspects, in the order of aspects.items()
AspectModels == <<"openai", "ollama", "gigachat">>

\* f"{model}_final"
FinalKey(model) ==
    CASE model = "openai"   -> "openai_final"
      [] model = "ollama"   -> "ollama_final"
      [] model = "gigachat" -> "gigachat_final"

\* d[key] = value
DictSet(d, key, value) ==
    [k \in DOMAIN d \cup {key} |-> IF k = key THEN value ELSE d[k]]

\* n times a word, with single spaces between
RECURSIVE Repeat(_, _)
Repeat(word, n) ==
    IF n <= 1 THEN word ELSE word \o <<32>> \o Repeat(word, n - 1)

\* the answer a backend gives when all is well: min_words Russian words,
\* another word for each backend
NominalOpenai == Repeat(<<1103>>, min_words)
NominalOllama == Repeat(<<1076>>, min_words)
NominalGigachat == Repeat(<<1040>>, min_words)
Nominal(model) ==
    CASE model = "openai" -> NominalOpenai
      [] model = "ollama" -> NominalOllama
      [] OTHER            -> NominalGigachat

NextModel(model) ==
    CASE model = "openai" -> "ollama"
      [] model = "ollama" -> "gigachat"
      [] OTHER            -> "openai"

\* the texts a backend delivers when it deviates: nothing, a full stop, "ё",
\* and the nominal answer of another backend
DeviantTexts(model) ==
    {<<>>, <<46>>, <<1105>>, Nominal(NextModel(model))}
\* the details of the exceptions a backend raises: "a" and "я"
DeviantDetails == {<<97>>, <<1103>>}

Outcomes(model) ==
    {[kind |-> "content", value |-> v] :
        v \in DeviantTexts(model) \cup {None, Nominal(model)}}
    \cup {[kind |-> "raises", value |-> v] : v \in DeviantDetails}
    \cup (IF model = "ollama"
          THEN {[kind |-> "nokey", value |-> <<>>]} ELSE {})

IsNominal(model, outcome) ==
    outcome = [kind |-> "content", value |-> Nominal(model)]

\* the call is within the deviations of the session
Budget(model, outcome) ==
    IF IsNominal(model, outcome)
    THEN deviations' = deviations
    ELSE deviations < MaxDeviations /\ deviations' = deviations + 1

\* "\n".join(texts)
RECURSIVE Join(_)
Join(texts) ==
    IF Len(texts) = 0 THEN <<>>
    ELSE IF Len(texts) = 1 THEN texts[1]
    ELSE texts[1] \o <<10>> \o Join(Tail(texts))

\* the context made of the last message only
ContextLastOnly(entries) == entries[Len(entries)]["content"]

\* line 183
Context(entries) == Join([k \in 1..Len(entries) |-> entries[k]["content"]])

\* the message of a failed assert: f"{prefix} from {model} {rule}"
Message(prefix, model, rule) ==
    [rule |-> rule, model |-> model, prefix |-> prefix]

\* line 327: the message names no backend
UniqueMessage == [rule |-> "unique", model |-> "none", prefix |-> "Final responses"]

\* an exception of the store that ends the test
StoreError(error) == [rule |-> error, model |-> "none", prefix |-> "none"]

\* f"{kind}_{now:%Y%m%d_%H%M%S}"
TestName(kind, t) == <<kind, Second(t)>>

(* ------------------------- the pytest session -------------------------- *)
\* the rows a call of save_dialogue_to_db commits at tick t, the first with
\* the given id
RowsOf(firstId, name, t, entries) ==
    [k \in 1..Len(entries) |->
        Row(firstId + k - 1, name, t, entries[k], SeqNum(k - 1))]

\* the entries of a test_russian_dialogue in which every backend gave its
\* nominal answer
NominalDialogue ==
    <<[model |-> "system", type |-> "topic", content |-> topic]>>
    \o [k \in 1..(Rounds * Len(models)) |->
          [model   |-> models[((k - 1) % Len(models)) + 1],
           type    |-> "response",
           content |-> Nominal(models[((k - 1) % Len(models)) + 1])]]

\* the table when the session starts: new, or with the dialogue an earlier
\* session saved at tick 0
InitStores ==
    {<<>>, RowsOf(1, TestName("russian_dialogue", 0), 0, NominalDialogue)}

Init ==
    /\ db \in InitStores
    /\ now = 0
    /\ conn = [c \in Callers |-> IdleConn]
    /\ result = NoResult
    /\ pc = "A_start"
    /\ test_name = <<>>
    /\ dialogue_entries = <<>>
    /\ turn = 0
    /\ prompt = NoPrompt
    /\ responses = EmptyDict
    /\ failure = NoFailure
    /\ deviations = 0
    /\ startLen = 0
    /\ NoTurn

\* time passes between two tests of the session. (The ticks between two
\* INSERTs of one save_dialogue_to_db call are those of SpecStore.)
SessionTick ==
    /\ pc \in {"A_start", "A_passed", "A_failed"}
    /\ now < MaxTime
    /\ now' = now + 1
    /\ UNCHANGED <<db, conn, result, sessionVars, turnVars>>

\* a failed assert caught, the loop going on with its next pass
AfterFailedCheckContinue(at) == at

\* lines 199-205, 277-279 and 309-317: an assert that fails raises
\* AssertionError, which nothing catches: the test at position `at` is over
AfterFailedCheck(at) == IF at = "A_turn" THEN "A_failed" ELSE "B_failed"

\* lines 162-179
StartRussian ==
    /\ pc = "A_start"
    /\ test_name' = TestName("russian_dialogue", now)
    /\ dialogue_entries' =
          <<[model |-> "system", type |-> "topic", content |-> topic]>>
    /\ turn' = 0
    /\ prompt' = NoPrompt
    /\ responses' = EmptyDict
    /\ failure' = NoFailure
    /\ startLen' = Len(db)
    /\ pc' = "A_turn"
    /\ call' = NoCall
    /\ returned' = None
    /\ UNCHANGED <<db, now, conn, result, deviations, verdict>>

\* line 218 indented into the loops: the dialogue is saved after every pass
AfterRussianTurnSaveInLoop(n) == "A_save"

\* lines 181-182 and 218: after n passes the loops go on, or they are over
\* and the dialogue is saved
AfterRussianTurn(n) ==
    IF n = Rounds * Len(models) THEN "A_save" ELSE "A_turn"

\* lines 183-215: one pass of the inner loop
RussianTurn ==
    /\ pc = "A_turn"
    /\ LET model == models[(turn % Len(models)) + 1]
       IN \E outcome \in Outcomes(model) :
            LET reply == get_model_response(model, outcome)
                check == CheckResponse(reply)
            IN /\ Budget(model, outcome)
               /\ call' = [client_type |-> model, outcome |-> outcome]
               /\ returned' = reply
               /\ prompt' = [kind |-> "continue",
                             context |-> Context(dialogue_entries)]
               /\ turn' = turn + 1
               /\ IF check # "ok"
                  THEN /\ failure' = Message("Response", model, check)
                       /\ pc' = AfterFailedCheck(pc)
                       /\ UNCHANGED dialogue_entries
                  ELSE /\ dialogue_entries' = Append(dialogue_entries,
                              [model |-> model, type |-> "response",
                               content |-> reply])
                       /\ pc' = AfterRussianTurn(turn + 1)
                       /\ UNCHANGED failure
    /\ UNCHANGED <<db, now, conn, result, test_name, responses, startLen,
                   verdict>>

\* lines 222-248
StartTask ==
    /\ pc \in {"A_passed", "A_failed"}
    /\ test_name' = TestName("task_solving", now)
    /\ dialogue_entries' =
          <<[model |-> "system", type |-> "task", content |-> task]>>
    /\ turn' = 0
    /\ prompt' = NoPrompt
    /\ responses' = EmptyDict
    /\ failure' = NoFailure
    /\ startLen' = Len(db)
    /\ pc' = "B_aspect"
    /\ call' = NoCall
    /\ returned' = None
    /\ UNCHANGED <<db, now, conn, result, deviations, verdict>>

\* lines 250-281: one pass of the loop over aspects.items()
AspectTurn ==
    /\ pc = "B_aspect"
    /\ LET model == AspectModels[turn + 1]
       IN \E outcome \in Outcomes(model) :
            LET reply == get_model_response(model, outcome)
                check == CheckAspect(reply)
            IN /\ Budget(model, outcome)
               /\ call' = [client_type |-> model, outcome |-> outcome]
               /\ returned' = reply
               /\ prompt' = [kind |-> "aspect", task |-> task,
                             aspect |-> aspects(model)]
               /\ turn' = turn + 1
               /\ responses' = DictSet(responses, model, reply)
               /\ dialogue_entries' = Append(dialogue_entries,
                      [model |-> model, type |-> "aspect_response",
                       content |-> reply, aspect |-> aspects(model)])
               /\ IF check # "ok"
                  THEN /\ failure' = Message("Response", model, check)
                       /\ pc' = AfterFailedCheck(pc)
                  ELSE /\ pc' = IF turn + 1 = Len(AspectModels)
                                THEN "B_final" ELSE "B_aspect"
                       /\ UNCHANGED failure
    /\ UNCHANGED <<db, now, conn, result, test_name, startLen, verdict>>

\* the final prompt with the solution of openai in all three places
FinalPromptOneSolution ==
    [kind        |-> "final",
     technical   |-> responses["openai"],
     pedagogical |-> responses["openai"],
     ux          |-> responses["openai"]]

\* lines 283-294
FinalPrompt ==
    [kind        |-> "final",
     technical   |-> responses["openai"],
     pedagogical |-> responses["ollama"],
     ux          |-> responses["gigachat"]]

\* line 327 before line 323: after the final loop the uniqueness of the final
\* responses is checked first
AfterFinalTurnCheckFirst(n) ==
    IF n = Len(AspectModels) + Len(models) THEN "B_unique" ELSE "B_final"

\* lines 297 and 323: after n adapter calls the final loop goes on, or it is
\* over and the dialogue is saved
AfterFinalTurn(n) ==
    IF n = Len(AspectModels) + Len(models) THEN "B_save" ELSE "B_final"

\* lines 297-320: one pass of the loop over models
FinalTurn ==
    /\ pc = "B_final"
    /\ LET model == models[turn - Len(AspectModels) + 1]
       IN \E outcome \in Outcomes(model) :
            LET final_response == get_model_response(model, outcome)
                check == CheckFinal(final_response)
            IN /\ Budget(model, outcome)
               /\ call' = [client_type |-> model, outcome |-> outcome]
               /\ returned' = final_response
               /\ prompt' = FinalPrompt
               /\ turn' = turn + 1
               /\ dialogue_entries' = Append(dialogue_entries,
                      [model |-> model, type |-> "final_response",
                       content |-> final_response])
               /\ IF check # "ok"
                  THEN /\ failure' = Message("Final response", model, check)
                       /\ pc' = AfterFailedCheck(pc)
                       /\ UNCHANGED responses
                  ELSE /\ responses' =
                              DictSet(responses, FinalKey(model), final_response)
                       /\ pc' = AfterFinalTurn(turn + 1)
                       /\ UNCHANGED failure
    /\ UNCHANGED <<db, now, conn, result, test_name, startLen, verdict>>

\* lines 218 and 323: the test calls save_dialogue_to_db
SaveDialogue ==
    /\ pc \in {"A_save", "B_save"}
    /\ OpenConn("c1", test_name, dialogue_entries)
    /\ pc' = IF pc = "A_save" THEN "A_saving" ELSE "B_saving"
    /\ UNCHANGED <<db, now, result, test_name, dialogue_entries, turn, prompt,
                   responses, failure, deviations, startLen, turnVars>>

Saving == pc \in {"A_saving", "B_saving"}

SessionInsert ==
    /\ Saving
    /\ Insert("c1")
    /\ UNCHANGED <<result, sessionVars, turnVars>>

SessionInsertRaises ==
    /\ Saving
    /\ InsertRaises("c1")
    /\ UNCHANGED <<result, sessionVars, turnVars>>

SessionCommit ==
    /\ Saving
    /\ Commit("c1")
    /\ UNCHANGED <<result, sessionVars, turnVars>>

SessionCommitRaises ==
    /\ Saving
    /\ CommitRaises("c1")
    /\ UNCHANGED <<result, sessionVars, turnVars>>

\* save_dialogue_to_db returned: test_russian_dialogue is over, and
\* test_task_solving_dialogue goes on to line 326
SaveReturned ==
    /\ Saving
    /\ conn["c1"].status = "returned"
    /\ conn' = [conn EXCEPT !["c1"] = IdleConn]
    /\ pc' = IF pc = "A_saving" THEN "A_passed" ELSE "B_unique"
    /\ UNCHANGED <<db, now, result, test_name, dialogue_entries, turn, prompt,
                   responses, failure, deviations, startLen, turnVars>>

\* save_dialogue_to_db raised: the exception ends the test
SaveRaised ==
    /\ Saving
    /\ conn["c1"].status = "raised"
    /\ failure' = StoreError(conn["c1"].error)
    /\ conn' = [conn EXCEPT !["c1"] = IdleConn]
    /\ pc' = IF pc = "A_saving" THEN "A_failed" ELSE "B_failed"
    /\ UNCHANGED <<db, now, result, test_name, dialogue_entries, turn, prompt,
                   responses, deviations, startLen, turnVars>>

\* line 326
FinalResponses == [k \in 1..Len(models) |-> responses[FinalKey(models[k])]]

\* len(set(final_responses)) <= len(models)
AllUniqueLax(final_responses) ==
    Cardinality({final_responses[k] : k \in 1..Len(final_responses)})
        <= Len(models)

\* len(set(final_responses)) == len(models)
AllUnique(final_responses) ==
    Cardinality({final_responses[k] : k \in 1..Len(final_responses)})
        = Len(models)

\* lines 326-329
UniqueCheck ==
    /\ pc = "B_unique"
    /\ IF AllUnique(FinalResponses)
       THEN pc' = "B_passed" /\ UNCHANGED failure
       ELSE pc' = "B_failed" /\ failure' = UniqueMessage
    /\ UNCHANGED <<db, now, conn, result, test_name, dialogue_entries, turn,
                   prompt, responses, deviations, startLen, turnVars>>

Next ==
    \/ SessionTick
    \/ StartRussian
    \/ RussianTurn
    \/ StartTask
    \/ AspectTurn
    \/ FinalTurn
    \/ SaveDialogue
    \/ SessionInsert
    \/ SessionInsertRaises
    \/ SessionCommit
    \/ SessionCommitRaises
    \/ SaveReturned
    \/ SaveRaised
    \/ UniqueCheck

Spec == Init /\ [][Next]_vars

(* --------------------------- a single turn ----------------------------- *)
\* the characters of the texts drawn: "я", "ё", "a", a space, a full stop
Alphabet == {1103, 1105, 97, 32, 46}

TextsUpTo(n) == UNION {[1..k -> Alphabet] : k \in 0..n}

\* the texts a backend delivers or raises with in a single turn: the short
\* ones, and texts of min_words - 1 and of min_words words
TurnTexts ==
    TextsUpTo(MaxLen)
    \cup {Repeat(<<1103>>, min_words - 1), NominalOpenai,
          Repeat(<<97>>, min_words) \o <<32, 1105>>}

\* the callers name the three backends; any other name is no backend
ClientTypes == {"openai", "ollama", "gigachat", "mistral"}

InitTurn ==
    /\ db = <<>>
    /\ now = 0
    /\ conn = [c \in Callers |-> IdleConn]
    /\ result = NoResult
    /\ NoSession
    /\ NoTurn

\* get_model_response(client_type, prompt)
Generate ==
    /\ \E client_type \in ClientTypes :
         \E outcome \in OutcomesOver(client_type, TurnTexts) :
            /\ call' = [client_type |-> client_type, outcome |-> outcome]
            /\ returned' = get_model_response(client_type, outcome)
    /\ verdict' = NoVerdict
    /\ UNCHANGED <<db, now, conn, result, sessionVars>>

\* the asserts of the three kinds of turn, run on what was returned
Validate ==
    /\ call # NoCall
    /\ verdict = NoVerdict
    /\ verdict' = [response |-> CheckResponse(returned),
                   aspect   |-> CheckAspect(returned),
                   final    |-> CheckFinal(returned)]
    /\ UNCHANGED <<db, now, conn, result, sessionVars, call, returned>>

NextTurn ==
    \/ Generate
    \/ Validate

SpecTurn == InitTurn /\ [][NextTurn]_vars

(* ------------------- two runs saving at the same time ------------------ *)
\* the kinds of run, each a test of the class
RunKinds == {"russian_dialogue", "task_solving"}

\* the entries of a run that is over: each with its content
SavedEntryPool ==
    {[model |-> "openai", type |-> "response", content |-> <<1103>>],
     [model |-> "system", type |-> "topic", content |-> topic]}

\* the entry lists of a run that is over: it has its first entry at least
SavedEntryLists ==
    UNION {[1..n -> SavedEntryPool] : n \in 1..(MaxRows - 1)}

\* lines 218 and 323, for two runs in two processes: a run calls
\* save_dialogue_to_db with the test_name it made when it began (at some tick
\* up to now) and with its entries; each of the two runs calls once
PairSave ==
    /\ \E c \in Callers, kind \in RunKinds, began \in 0..now,
          entries \in SavedEntryLists :
          OpenConn(c, TestName(kind, began), entries)
    /\ UNCHANGED <<db, now, result, sessionVars, turnVars>>

NextPair ==
    \/ PairSave
    \/ StoreInsert
    \/ StoreInsertRaises
    \/ StoreCommit
    \/ StoreCommitRaises
    \/ Tick

SpecPair == InitStore /\ [][NextPair]_vars

(* ------------------------------- claims -------------------------------- *)
\* the rows the running test has put into the table
StoredByTest == SubSeq(db, startLen + 1, Len(db))

\* the contents of a sequence of rows, and of a sequence of entries
RowContents(rows) == [k \in 1..Len(rows) |-> rows[k].message_content]
EntryContents(entries) == [k \in 1..Len(entries) |-> entries[k]["content"]]

\* C1: every listing get_dialogue_from_db returns carries the sequence numbers
\* 0..k-1, in that order, with no gap and no repeat, also after more than one
\* save_dialogue_to_db call for the same run name.
C1_SequenceInvariant ==
    result.query = "dialogue" =>
        \A k \in 1..Len(result.rows) : result.rows[k].sequence_number = k - 1

\* C2 as stated: when test_russian_dialogue is ended by the non-empty check,
\* the table holds for this run the entries made before the abort (the topic
\* and the answers accepted before).
C2_TranscriptKeptOnAbort ==
    (pc = "A_failed" /\ failure.rule = "empty") =>
        RowContents(StoredByTest) = EntryContents(dialogue_entries)

\* C2 as amended: an empty answer ends test_russian_dialogue on that very
\* turn, with the failure that names the backend and the non-empty check, and
\* the test has put nothing into the table: the topic and the answers
\* accepted before are in memory only.
C2_EmptyAnswerAborts ==
    (pc \in {"A_turn", "A_save", "A_saving", "A_passed", "A_failed"}
        /\ call # NoCall /\ returned = <<>>) =>
            /\ pc = "A_failed"
            /\ failure.rule = "empty"
            /\ failure.model = call.client_type
            /\ call.client_type = models[((turn - 1) % Len(models)) + 1]
            /\ Len(dialogue_entries) = turn
            /\ Len(db) = startLen

\* C2 witness: ollama answers with the empty string on its first turn, after
\* the answer of openai was accepted.
C2_Witness ==
    /\ pc = "A_failed"
    /\ returned = <<>>
    /\ failure.model = "ollama"
    /\ turn = 2
    /\ Len(dialogue_entries) = 2
    /\ StoredByTest = <<>>

\* the positions at which a test is about to call the adapter
TurnPcs == {"A_turn", "B_aspect", "B_final"}

\* C3 as stated: whenever a test is about to call the adapter, every entry
\* made so far (the topic or task included) is in the table.
C3_PersistBeforeAdvancing ==
    pc \in TurnPcs =>
        RowContents(StoredByTest) = EntryContents(dialogue_entries)

\* the adapter calls of a whole test
TurnsOf(at) ==
    IF at \in {"A_save", "A_saving", "A_passed"}
    THEN Rounds * Len(models)
    ELSE Len(AspectModels) + Len(models)

\* C3 as amended: while a test calls the adapter none of its entries is in
\* the table; the table gets them in one save_dialogue_to_db call made after
\* the last turn, all of them at once.
C3_SavedOnceAfterLastTurn ==
    /\ pc \in TurnPcs \cup {"A_save", "B_save"} => Len(db) = startLen
    /\ (Saving /\ conn["c1"].status # "returned") => Len(db) = startLen
    /\ (Saving /\ conn["c1"].status = "returned") =>
          RowContents(StoredByTest) = EntryContents(dialogue_entries)
    /\ pc \in {"A_save", "B_save", "A_saving", "B_saving", "A_passed",
               "B_unique", "B_passed"} => turn = TurnsOf(pc)
    /\ pc \in {"A_passed", "B_unique", "B_passed"} =>
          RowContents(StoredByTest) = EntryContents(dialogue_entries)

\* C3 witness: test_task_solving_dialogue is about to make its fifth call and
\* has made five entries, none of them in the table.
C3_Witness ==
    /\ pc = "B_final"
    /\ turn = 4
    /\ Len(dialogue_entries) = 5
    /\ StoredByTest = <<>>

\* C4: a test_russian_dialogue that passes has stored 10 rows: the topic with
\* sequence number 0, then 9 responses with the sequence numbers 1..9, the
\* backends in the order openai, ollama, gigachat in each of the 3 rounds.
C4_RoundRobinComplete ==
    pc = "A_passed" =>
        /\ Len(StoredByTest) = 10
        /\ \A k \in 1..Len(StoredByTest) :
              /\ StoredByTest[k].sequence_number = k - 1
              /\ StoredByTest[k].test_name = test_name
        /\ StoredByTest[1].model_name = "system"
        /\ StoredByTest[1].message_type = "topic"
        /\ \A r \in 0..2 :
              /\ StoredByTest[3 * r + 2].model_name = "openai"
              /\ StoredByTest[3 * r + 3].model_name = "ollama"
              /\ StoredByTest[3 * r + 4].model_name = "gigachat"
        /\ \A k \in 2..Len(StoredByTest) :
              StoredByTest[k].message_type = "response"

\* C4 witness: a test_russian_dialogue has passed and its rows are stored.
C4_Witness ==
    /\ pc = "A_passed"
    /\ Len(db) = startLen + 10
    /\ db[Len(db)].model_name = "gigachat"

\* the texts of the final_response entries made so far
FinalEntries ==
    {k \in 1..Len(dialogue_entries) :
        dialogue_entries[k]["type"] = "final_response"}

TwoFinalsAlike ==
    \E j, k \in FinalEntries :
        j # k /\ dialogue_entries[j]["content"] = dialogue_entries[k]["content"]

BOver == pc \in {"B_passed", "B_failed"}

\* test_task_solving_dialogue passes only after the final response of the
\* last backend and only with final responses that differ from one another
PassesOnlyWhenUnique ==
    pc = "B_passed" =>
        /\ turn = Len(AspectModels) + Len(models)
        /\ dialogue_entries[Len(dialogue_entries)]["model"] = models[Len(models)]
        /\ Cardinality(FinalEntries) = Len(models)
        /\ ~TwoFinalsAlike

\* the test was ended by an exception of the store
StoreFailed == failure.rule \in {"KeyError", "IntegrityError", "OperationalError"}

\* C5 as stated: the test passes only after the last final response and only
\* with pairwise distinct final responses, and whenever two backends gave the
\* same final response it ends with the uniqueness failure (the runs ended by
\* an exception of the store set aside).
C5_UniquenessLaw ==
    /\ PassesOnlyWhenUnique
    /\ (BOver /\ TwoFinalsAlike /\ ~StoreFailed) => failure = UniqueMessage

\* C5 as amended: the test passes only after the last final response and only
\* with pairwise distinct final responses; when all final responses passed
\* their checks and the dialogue was saved, two equal final responses end the
\* test with the uniqueness failure, and nothing else does.
C5_UniquenessAfterSave ==
    /\ PassesOnlyWhenUnique
    /\ (BOver /\ TwoFinalsAlike /\ Len(StoredByTest) = Len(dialogue_entries))
          => (pc = "B_failed" /\ failure = UniqueMessage)
    /\ (BOver /\ failure = UniqueMessage) =>
          (TwoFinalsAlike /\ Len(StoredByTest) = Len(dialogue_entries))

\* C5 witness: all three final responses passed, the dialogue is saved, two
\* of them are equal and the test has failed on that.
C5_Witness ==
    /\ pc = "B_failed"
    /\ failure = UniqueMessage
    /\ Cardinality(FinalEntries) = 3
    /\ TwoFinalsAlike
    /\ Len(StoredByTest) = 7

\* a character of the Cyrillic block, U+0400..U+04FF
IsCyrillic(c) == c \in 1024..1279

\* the text has a character of the Cyrillic block, a Cyrillic letter
HasCyrillic(s) == \E k \in 1..Len(s) : IsCyrillic(s[k])
HasCyrillicLetter(s) == \E k \in 1..Len(s) : IsCyrillic(s[k]) /\ IsAlpha(s[k])

\* C6: a text without any Cyrillic character fails the target-language check
\* (no turn accepts it), and every non-empty text with at least one Cyrillic
\* letter, "ё" and "Ё" included, passes it (the aspect turn accepts it).
C6_ValidationSoundness ==
    (verdict # NoVerdict /\ IsStr(returned)) =>
        /\ ~HasCyrillic(returned) =>
              /\ verdict.response # "ok"
              /\ verdict.aspect # "ok"
              /\ verdict.final # "ok"
        /\ (Len(returned) > 0 /\ HasCyrillicLetter(returned)) =>
              verdict.aspect = "ok"

Backends == {models[k] : k \in 1..Len(models)}

Failed(outcome) == outcome.kind \in {"raises", "nokey"}

\* s begins with p
StartsWith(s, p) == Len(s) >= Len(p) /\ SubSeq(s, 1, Len(p)) = p

\* the text after the first n characters of s
After(s, n) == SubSeq(s, n + 1, Len(s))

\* what get_model_response returns when the client of a backend fails:
\* "Error getting response from <backend>: <detail>"
IsSentinel(v, client_type, outcome) ==
    /\ IsStr(v)
    /\ StartsWith(v, ErrorPrefix)
    /\ StartsWith(After(v, Len(ErrorPrefix)), IdText(client_type))
    /\ StartsWith(After(v, Len(ErrorPrefix) + Len(IdText(client_type))),
                  <<58, 32>>)
    /\ outcome.kind = "raises" =>
          After(v, Len(ErrorPrefix) + Len(IdText(client_type)) + 2)
              = outcome.value

\* C7 as stated: for each of the three backends get_model_response returns
\* the error text that names the backend whenever the client fails, and what
\* it returns is text in every case.
C7_AlwaysText ==
    (call # NoCall /\ call.client_type \in Backends) =>
        /\ IsStr(returned)
        /\ Failed(call.outcome) =>
              IsSentinel(returned, call.client_type, call.outcome)

\* C7 as amended: for each of the three backends get_model_response returns
\* the error text that names the backend and carries the detail whenever the
\* client raises; when the client raises nothing it returns the content the
\* client delivered as it is, which is text only if the client delivered text.
C7_SentinelOnFailure ==
    (call # NoCall /\ call.client_type \in Backends) =>
        IF Failed(call.outcome)
        THEN IsSentinel(returned, call.client_type, call.outcome)
        ELSE /\ returned = call.outcome.value
             /\ IsStr(returned) <=> call.outcome.value # None

\* C7 witness: the client of gigachat raised with the detail "я" and
\* get_model_response returned "Error getting response from gigachat: я".
C7_Witness ==
    /\ call.client_type = "gigachat"
    /\ call.outcome = [kind |-> "raises", value |-> <<1103>>]
    /\ returned = ErrorPrefix \o <<103,105,103,97,99,104,97,116,58,32,1103>>

\* C8: whenever the adapter returned its error text the test ends on that
\* turn with a validation failure for that backend; no error text is accepted
\* as a response.
C8_ErrorTextRejected ==
    (call # NoCall /\ Failed(call.outcome)) =>
        /\ pc \in {"A_failed", "B_failed"}
        /\ failure.model = call.client_type

\* what one step does to the table for the save_dialogue_to_db call of c
AppendStep(c) ==
    /\ (conn[c].status = "open" /\ conn'[c].status = "open") => db' = db
    /\ (conn[c].status = "open" /\ conn'[c].status = "raised") =>
          /\ db' = db
          /\ conn'[c].error # "none"
    /\ (conn[c].status = "open" /\ conn'[c].status = "returned") =>
          /\ Len(db') = Len(db) + Len(conn[c].entries)
          /\ SubSeq(db', 1, Len(db)) = db
          /\ \A k \in 1..Len(conn[c].entries) :
                /\ "content" \in DOMAIN conn[c].entries[k]
                /\ db'[Len(db) + k].message_content
                      = conn[c].entries[k]["content"]
                /\ db'[Len(db) + k].test_name = conn[c].name

\* C9: a save_dialogue_to_db call stores all its entries or none. While it
\* runs the table does not change; when it raises (an entry without content,
\* a content of None, a table that cannot be written) the table is as it was
\* before the call and the caller gets the exception; when it returns, the
\* table has grown by the rows of all its entries.
C9_AtomicAppend ==
    [][/\ \A c \in Callers : AppendStep(c)
       /\ db' # db => \E c \in Callers :
             conn[c].status = "open" /\ conn'[c].status = "returned"]_vars

\* C9 witness: the call inserted the row of its first entry, its second entry
\* had no content, the call raised and the table is empty.
C9_Witness ==
    /\ conn["c1"].status = "raised"
    /\ conn["c1"].error = "KeyError"
    /\ conn["c1"].pos = 1
    /\ db = <<>>

\* C10: the latest tests view_latest_test_results reads are at most 5, the
\* most recent first, and no test_name is among them twice.
C10_RecentRuns ==
    result.query = "latest" =>
        /\ Len(result.rows) <= Limit
        /\ \A j, k \in 1..Len(result.rows) :
              j < k => /\ result.rows[j][2] >= result.rows[k][2]
                       /\ result.rows[j][1] # result.rows[k][1]

\* the rows the table held when the running test began: the rows of other runs
RowsOfOtherRuns == SubSeq(db, 1, startLen)

\* C11: the run name of the running test is the name of no other run: no row
\* that another run stored carries it, also not when that run was of the same
\* kind and began in the same clock second.
C11_UniqueRunNames ==
    pc \notin {"A_start", "off"} =>
        \A k \in 1..Len(RowsOfOtherRuns) :
            RowsOfOtherRuns[k].test_name # test_name

APcs == {"A_turn", "A_save", "A_saving", "A_passed", "A_failed"}
FailedPcs == {"A_failed", "B_failed"}

\* the last adapter call was one of the final loop of test_task_solving_dialogue
InFinalLoop == pc \notin APcs /\ turn > Len(AspectModels)

\* what the asserts of the running test say of the last answer
LastCheck ==
    IF pc \in APcs THEN CheckResponse(returned)
    ELSE IF InFinalLoop THEN CheckFinal(returned)
    ELSE CheckAspect(returned)

\* the backend the turn-th adapter call of the running test is for
BackendOfTurn ==
    IF pc \in APcs THEN models[((turn - 1) % Len(models)) + 1]
    ELSE IF InFinalLoop THEN models[turn - Len(AspectModels)]
    ELSE AspectModels[turn]

\* the answers in dialogue_entries after `turn` adapter calls: all of them,
\* but for the answer test_russian_dialogue has just rejected
AnswersKept ==
    IF pc = "A_failed" /\ ~StoreFailed THEN turn - 1 ELSE turn

\* a failed check ends the test on the very turn: the answer that fails its
\* check leaves the test failed for the backend just called, and each turn
\* made one adapter call, to the backend whose turn it was
FailsAtOnce ==
    call # NoCall =>
        /\ LastCheck # "ok" =>
              /\ pc \in FailedPcs
              /\ failure.rule = LastCheck
              /\ failure.model = call.client_type
        /\ failure # NoFailure => pc \in FailedPcs
        /\ call.client_type = BackendOfTurn
        /\ Len(dialogue_entries) = 1 + AnswersKept

\* a failed test makes no adapter call any more: the session goes on only by
\* starting the next test
NoCallAfterFailure ==
    /\ pc \in FailedPcs =>
          \/ turn' = turn /\ call' = call /\ returned' = returned
          \/ pc' = "B_aspect" /\ turn' = 0 /\ call' = NoCall
    /\ turn' # turn => (turn' = turn + 1 \/ turn' = 0)

\* C12: every validation failure is fatal and immediate. The test is over on
\* the turn whose answer failed a check, no adapter call of that test follows
\* (none to the backend that failed, none to another), and each turn calls the
\* adapter of its backend once.
C12_FailureIsFatal == []FailsAtOnce /\ [][NoCallAfterFailure]_vars

\* C12 witness: in the second round ollama answered with a full stop; the test
\* is over after five adapter calls, with the four answers accepted before.
C12_Witness ==
    /\ pc = "A_failed"
    /\ turn = 5
    /\ returned = <<46>>
    /\ failure = Message("Response", "ollama", "letters")
    /\ Len(dialogue_entries) = 5

\* the rules of the response checks and of the uniqueness check
ValidationRules == {"empty", "letters", "russian", "short", "unique"}

\* the message has the name of the running test among its parts
NamesRun(message) == "run" \in DOMAIN message /\ message["run"] = test_name

\* C13: the message of every validation failure (empty, without letters, not
\* Russian, too short, final responses not unique) names the rule that was
\* broken, the backend that broke it, and the run.
C13_FailureNamesRuleBackendRun ==
    (pc \in FailedPcs /\ failure.rule \in ValidationRules) =>
        /\ failure.prefix # "none"
        /\ failure.model \in Backends
        /\ NamesRun(failure)

\* the contents of the first n entries of the running test
KeptContents(n) == [k \in 1..n |-> dialogue_entries[k]["content"]]

\* C15: the context test_russian_dialogue gives to a backend is the topic and
\* every response accepted before that call, in the order they were given,
\* joined, and nothing else. The entries kept are the topic and, backend after
\* backend in the order of the rounds, responses that passed the checks; a
\* response that failed them is not kept and so is in no context.
C15_ContextAccumulation ==
    (pc \in APcs /\ call # NoCall) =>
        /\ prompt.kind = "continue"
        /\ prompt.context = Join(KeptContents(turn))
        /\ dialogue_entries[1]["content"] = topic
        /\ \A k \in 2..Len(dialogue_entries) :
              /\ CheckResponse(dialogue_entries[k]["content"]) = "ok"
              /\ dialogue_entries[k]["model"] = models[((k - 2) % Len(models)) + 1]
        /\ (pc = "A_failed" /\ ~StoreFailed) =>
              /\ Len(dialogue_entries) = turn
              /\ CheckResponse(returned) # "ok"

\* C15 witness: openai is called in the second round with the topic and the
\* three responses of the first round as its context.
C15_Witness ==
    /\ pc = "A_turn"
    /\ turn = 4
    /\ call.client_type = "openai"
    /\ prompt.context = topic \o <<10>> \o NominalOpenai \o <<10>> \o NominalOllama
                              \o <<10>> \o NominalGigachat

BPcs == {"B_aspect", "B_final", "B_save", "B_saving", "B_unique", "B_passed",
         "B_failed"}

\* the entry at position k of a test_task_solving_dialogue is the task, the
\* aspect response of its backend with the label of that backend, or the final
\* response of its backend
InPlanBOrder(entries, k) ==
    IF k = 1
    THEN /\ entries[k]["type"] = "task"
         /\ entries[k]["model"] = "system"
    ELSE IF k <= 1 + Len(AspectModels)
    THEN /\ entries[k]["type"] = "aspect_response"
         /\ entries[k]["model"] = AspectModels[k - 1]
         /\ entries[k]["aspect"] = aspects(AspectModels[k - 1])
    ELSE /\ entries[k]["type"] = "final_response"
         /\ entries[k]["model"] = models[k - 1 - Len(AspectModels)]
         /\ "aspect" \notin DOMAIN entries[k]

\* C16: in test_task_solving_dialogue no call of the final loop is made before
\* the aspect responses of all three backends are there and have passed their
\* checks; every call of the final loop gets the one prompt that embeds the
\* three aspect responses as they were returned; and a test that passed has
\* stored 7 rows: the task, the aspect responses of openai, ollama, gigachat
\* with their aspect labels, then the final responses of openai, ollama,
\* gigachat.
C16_PlanBTopology ==
    /\ (pc \in BPcs /\ call # NoCall) =>
          /\ \A k \in 1..Len(dialogue_entries) : InPlanBOrder(dialogue_entries, k)
          /\ ~InFinalLoop => prompt = [kind |-> "aspect", task |-> task,
                                       aspect |-> aspects(call.client_type)]
          /\ (InFinalLoop \/ pc = "B_final") =>
                \A k \in 1..Len(AspectModels) :
                    CheckAspect(dialogue_entries[k + 1]["content"]) = "ok"
          /\ InFinalLoop =>
                prompt = [kind        |-> "final",
                          technical   |-> dialogue_entries[2]["content"],
                          pedagogical |-> dialogue_entries[3]["content"],
                          ux          |-> dialogue_entries[4]["content"]]
    /\ pc = "B_passed" =>
          /\ Len(StoredByTest) = 7
          /\ \A k \in 1..Len(StoredByTest) :
                /\ StoredByTest[k].sequence_number = k - 1
                /\ StoredByTest[k].model_name = dialogue_entries[k]["model"]
                /\ StoredByTest[k].message_type = dialogue_entries[k]["type"]
                /\ StoredByTest[k].message_content = dialogue_entries[k]["content"]
                /\ StoredByTest[k].aspect =
                      Get(dialogue_entries[k], "aspect", NULL)

\* C16 witness: the test has passed; gigachat gave the last final response, to
\* the prompt with the three nominal aspect responses.
C16_Witness ==
    /\ pc = "B_passed"
    /\ call.client_type = "gigachat"
    /\ prompt = [kind |-> "final", technical |-> NominalOpenai,
                 pedagogical |-> NominalOllama, ux |-> NominalGigachat]
    /\ StoredByTest[4].aspect = "user experience aspect"
    /\ StoredByTest[7].message_type = "final_response"

\* C17: the asserts of the aspect loop (lines 277-279) accept a returned value
\* exactly when the asserts of lines 199-205 do, that is when it is text, is
\* not empty, has a letter and has a character of а-я or А-Я: the aspect loop
\* has no assert of its own for the letter, and none is missed.
C17_AspectChecksAreChecks1To4 ==
    verdict # NoVerdict =>
        /\ verdict.aspect = "ok" <=> verdict.response = "ok"
        /\ verdict.aspect = "ok" <=>
              /\ IsStr(returned)
              /\ Len(returned) > 0
              /\ AnyAlpha(returned)
              /\ HasRussian(returned)

\* C17 witness: " я" was returned and both loops accept it.
C17_Witness ==
    /\ returned = <<32, 1103>>
    /\ verdict.aspect = "ok"
    /\ verdict.response = "ok"

\* the last adapter call was one of the final loop and returned a text of
\* fewer than min_words words
ShortFinal == InFinalLoop /\ IsStr(returned) /\ WordCount(returned) < min_words

\* the minimum-length check is run in the final loop only, and a final
\* response of min_words words or more does not fail it
OnlyFinalsCanBeTooShort ==
    /\ failure.rule = "short" =>
          /\ InFinalLoop
          /\ failure.prefix = "Final response"
          /\ WordCount(returned) < min_words
    /\ (call # NoCall /\ InFinalLoop /\ IsStr(returned)
           /\ WordCount(returned) >= min_words) => failure.rule # "short"

\* C18 as stated: every final response of fewer than 20 words ends the test
\* with the too-short failure for its backend; one of 20 words or more does not
\* fail this check; and the check is made on no response of
\* test_russian_dialogue and on no aspect response.
C18_MinimumLength ==
    /\ OnlyFinalsCanBeTooShort
    /\ (call # NoCall /\ ShortFinal) =>
          /\ pc = "B_failed"
          /\ failure = Message("Final response", call.client_type, "short")

\* C18 as amended: every final response of fewer than 20 words ends the test
\* on that turn with a failure for its backend: the non-empty failure if it is
\* empty, the language failure if it has no character of а-я or А-Я, and the
\* too-short failure otherwise; one of 20 words or more does not fail this
\* check; and the check is made on no response of test_russian_dialogue and on
\* no aspect response.
C18_ShortFinalAborts ==
    /\ OnlyFinalsCanBeTooShort
    /\ (call # NoCall /\ ShortFinal) =>
          /\ pc = "B_failed"
          /\ failure.prefix = "Final response"
          /\ failure.model = call.client_type
          /\ failure.rule = IF Len(returned) = 0 THEN "empty"
                            ELSE IF ~HasRussian(returned) THEN "russian"
                            ELSE "short"

\* C18 witness: the aspect loop accepted "Error getting response from openai:
\* я", a text of 6 words, and the same text as final response of openai has
\* ended the test with the too-short failure for openai.
C18_Witness ==
    /\ pc = "B_failed"
    /\ turn = Len(AspectModels) + 1
    /\ returned = ErrorText("openai", <<1103>>)
    /\ WordCount(returned) = 6
    /\ WordCount(dialogue_entries[2]["content"]) = 6
    /\ failure = Message("Final response", "openai", "short")

\* the save_dialogue_to_db calls of both runs have returned
BothSaved == \A c \in Callers : conn[c].status = "returned"

\* C19: when the save_dialogue_to_db calls of two runs were under way at the
\* same time and both have returned, the listing of each run's test_name is
\* the entries of that run's own call, in their order, with the sequence
\* numbers 0..k-1, and holds no entry of the other run.
C19_InterleavingSafety ==
    BothSaved =>
        \A c \in Callers : \A rows \in Dialogue(db, conn[c].name) :
            /\ Len(rows) = Len(conn[c].entries)
            /\ \A k \in 1..Len(rows) :
                  /\ rows[k].sequence_number = k - 1
                  /\ rows[k].message_content = conn[c].entries[k]["content"]
                  /\ rows[k].model_name = conn[c].entries[k]["model"]

\* the entries of a whole transcript of the running test
TranscriptLen ==
    IF pc \in APcs THEN 1 + Rounds * Len(models)
    ELSE 1 + Len(AspectModels) + Len(models)

\* C20: the table never holds a part of a run. At every moment of a test the
\* table has none of its rows or its whole transcript (10 rows of
\* test_russian_dialogue, 7 of test_task_solving_dialogue); a
\* test_russian_dialogue that failed has left no row; and
\* test_task_solving_dialogue checks the uniqueness of the final responses with
\* its whole transcript stored, so that a test failing that check alone has
\* left all 7 rows, and one failing earlier none.
C20_NoPartialTranscript ==
    pc \in APcs \cup BPcs =>
        /\ \/ StoredByTest = <<>>
           \/ /\ Len(StoredByTest) = TranscriptLen
              /\ Len(dialogue_entries) = TranscriptLen
              /\ RowContents(StoredByTest) = EntryContents(dialogue_entries)
              /\ \A k \in 1..Len(StoredByTest) :
                    StoredByTest[k].test_name = test_name
        /\ pc \in {"A_passed", "B_unique", "B_passed"} =>
              Len(StoredByTest) = TranscriptLen
        /\ pc = "A_failed" => StoredByTest = <<>>
        /\ pc = "B_failed" =>
              IF failure = UniqueMessage
              THEN Len(StoredByTest) = 7
              ELSE StoredByTest = <<>>

\* C20 witness: a test_task_solving_dialogue has failed the uniqueness check
\* and its 7 rows, task to last final response, are in the table.
C20_Witness ==
    /\ pc = "B_failed"
    /\ failure.rule = "unique"
    /\ test_name[1] = "task_solving"
    /\ Len(db) = startLen + 7
    /\ db[startLen + 1].message_type = "task"
    /\ db[Len(db)].message_type = "final_response"

====
